---- MODULE Spec2Model ----
(***************************************************************************)
(* RSigma: the dependency-tracked evaluation engine of src/spreadsheet.rs  *)
(* (cell store behind one mutex, set/get, the propagation worker fed by an *)
(* mpsc channel) and the session handler of src/lib.rs.                    *)
(*                                                                         *)
(* Threads are the sessions and the worker.  One action is one critical    *)
(* section of the cell-store mutex, one reading of the clock or one        *)
(* channel operation; thread-local computation is folded into the step     *)
(* that precedes it.                                                       *)
(***************************************************************************)
EXTENDS Integers, Sequences, FiniteSets, TLC

\* ------------------------------------------------------------------ bounds
MaxLit == 2      \* integer literals a client writes: "1" .. "MaxLit"
MaxSets == 2     \* set calls issued by unscripted clients, all sessions together
MaxGets == 1     \* get calls issued, all sessions together

\* ------------------------------------------------------- cell identifiers
A1 == [col |-> 0, row |-> 0]
B1 == [col |-> 1, row |-> 0]
C1 == [col |-> 2, row |-> 0]
A2 == [col |-> 0, row |-> 1]
B2 == [col |-> 1, row |-> 1]
Cells == {A1, B1, C1, A2, B2}

Sessions == {"s1", "s2"}
Free == "free"

\* Spreadsheet::new, lines 62-66: the thread that runs process_cells_update
WorkerThread == "worker"

\* UpdateMessage::Shutdown, line 22: the message that names no cell; in the
\* channel it is told apart from CellUpdate { cell_id } by coordinates no cell has
Shutdown == [col |-> 0 - 1, row |-> 0 - 1]

\* ------------------------------------------------------------- CellValue
None == [t |-> "None", n |-> 0, msg |-> ""]
IntVal(k) == [t |-> "Int", n |-> k, msg |-> ""]
Error(m) == [t |-> "Error", n |-> 0, msg |-> m]
VariableDependsOnError == Error("VariableDependsOnError")
IsError(v) == v.t = "Error"

\* ------------------------------------------- expressions and their tokens
\* A variable name of an expression: `ok` tells whether the name parses as a
\* cell identifier (scalar) or as two of them joined by '_' (range).
Scalar(c) == [kind |-> "scalar", ok |-> TRUE, start |-> c, end |-> c]
Range(a, b) == [kind |-> "range", ok |-> TRUE, start |-> a, end |-> b]
Junk == [kind |-> "scalar", ok |-> FALSE, start |-> A1, end |-> A1]

Lit(k) == [op |-> "lit", names |-> <<>>, k |-> k]               \* "k"
Bad == [op |-> "bad", names |-> <<Junk, Junk>>, k |-> 0]          \* "invalid + expression"
Add(ns, k) == [op |-> "add", names |-> ns, k |-> k]             \* "A1 + 1", "A1 + B1 + 1"
Sum(a, b) == [op |-> "sum", names |-> <<Range(a, b)>>, k |-> 0] \* "sum(A1_B1)"
NoExpr == [op |-> "none", names |-> <<>>, k |-> 0]

\* CellExpr::find_variable_names
find_variable_names(expr) == expr.names

\* Spreadsheet::parse_range: both halves must parse; nothing else is checked
parse_range(tk) == tk.kind = "range" /\ tk.ok

\* the same cells with the two loops exchanged: column by column
RangeCellsByColumn(start, end) ==
    LET w == end.col - start.col + 1
        h == end.row - start.row + 1
    IN IF w <= 0 \/ h <= 0 THEN <<>>
       ELSE [i \in 1..(w * h) |->
                [col |-> start.col + ((i - 1) \div h), row |-> start.row + ((i - 1) % h)]]

\* the cells of start.row..=end.row x start.col..=end.col, row by row
RangeCells(start, end) ==
    LET w == end.col - start.col + 1
        h == end.row - start.row + 1
    IN IF w <= 0 \/ h <= 0 THEN <<>>
       ELSE [i \in 1..(w * h) |->
                [col |-> start.col + ((i - 1) % w), row |-> start.row + ((i - 1) \div w)]]

RECURSIVE DependenciesFrom(_, _)
DependenciesFrom(names, i) ==
    IF i > Len(names) THEN <<>>
    ELSE LET tk == names[i]
             here == IF tk.kind = "scalar"
                     THEN (IF tk.ok THEN <<tk.start>> ELSE <<>>)
                     ELSE (IF parse_range(tk) THEN RangeCells(tk.start, tk.end) ELSE <<>>)
         IN here \o DependenciesFrom(names, i + 1)

\* set, lines 126-140: scalars, and every cell of every range
Dependencies(expr) == DependenciesFrom(find_variable_names(expr), 1)

\* ------------------------------------------------------------ CellArgument
ArgValue(v) == [shape |-> "Value", rows |-> <<<<v>>>>]
ArgVector(vs) == [shape |-> "Vector", rows |-> <<vs>>]
ArgMatrix(rs) == [shape |-> "Matrix", rows |-> rs]

\* a range's values, collected row by row, in the shape the code gives them
Shaped(start, end, vals) ==
    LET w == end.col - start.col + 1
        h == end.row - start.row + 1
    IN IF start.col = end.col \/ start.row = end.row
       THEN ArgVector(vals)
       ELSE ArgMatrix([r \in 1..(IF h > 0 THEN h ELSE 0) |->
                          [c \in 1..(IF w > 0 THEN w ELSE 0) |-> vals[(r - 1) * w + c]]])

SeqRange(s) == {s[i] : i \in DOMAIN s}
ArgValues(arg) == UNION {SeqRange(arg.rows[r]) : r \in DOMAIN arg.rows}

\* ------------------------------------------------- CellExpr::evaluate
\* The evaluator is the external rsheet_lib; modelled from its contract:
\* a binding that carries an error value gives the transitive-error signal,
\* a failed evaluation gives a local error value.
RECURSIVE SumSeq(_, _)
SumSeq(vs, i) == IF i > Len(vs) THEN 0 ELSE vs[i].n + SumSeq(vs, i + 1)

RECURSIVE SumRows(_, _)
SumRows(rs, i) == IF i > Len(rs) THEN 0 ELSE SumSeq(rs[i], 1) + SumRows(rs, i + 1)

EvalOk(v) == [ok |-> TRUE, val |-> v]
EvalErr == [ok |-> FALSE, val |-> VariableDependsOnError]

evaluate(expr, variables) ==
    LET names == find_variable_names(expr)
        tainted == \E tk \in DOMAIN variables : \E v \in ArgValues(variables[tk]) : IsError(v)
        allInt == /\ \A i \in DOMAIN names : names[i] \in DOMAIN variables
                  /\ \A tk \in DOMAIN variables : \A v \in ArgValues(variables[tk]) : v.t = "Int"
    IN IF tainted THEN EvalErr
       ELSE IF expr.op = "lit" THEN EvalOk(IntVal(expr.k))
       ELSE IF expr.op = "bad" THEN EvalOk(Error("EvalError"))
       ELSE IF ~allInt THEN EvalOk(Error("EvalError"))
       ELSE IF expr.op = "add"
            THEN EvalOk(IntVal(expr.k + SumSeq([i \in DOMAIN names |-> variables[names[i]].rows[1][1]], 1)))
       ELSE EvalOk(IntVal(SumRows(variables[names[1]].rows, 1)))

\* ---------------------------------------------------------------- state
VARIABLES
    cells,             \* HashMap<CellIdentifier, CellInfo> behind the mutex
    lock,              \* holder of the cell-store mutex, or Free
    chan,              \* mpsc channel of UpdateMessage, sender side to receiver side
    clock,             \* the latest reading of Instant::now()
    fresh,             \* no step of any thread has followed the latest reading
    pc,                \* per session: where its handler stands
    cmd,               \* per session: the set being executed (cell_id, expression)
    current_time,      \* per session: set's start timestamp
    variables,         \* per session: resolve_variables' map so far
    pos,               \* per session: index of the next variable name to resolve
    acc,               \* per session: values collected for the range being read
    old_dependents,    \* per session: update_cell_info's clone of the old dependents
    reply,             \* per session: the reply about to be written
    asked,             \* per session: the answers get has given to the commands read so far
    written,           \* per session: the replies written to the connection so far
    prog,              \* per session: the sets a scripted client still has to issue
    budget,            \* sets unscripted clients may still issue
    gets,              \* gets unscripted clients may still issue
    wpc,               \* worker: where process_cells_update stands
    event,             \* worker: <<cell_id>> of the CellUpdate being processed, <<>> between events
    to_process,        \* worker: BFS queue
    discovered,        \* worker: BFS visited set
    dependency_graph,  \* worker: cell -> the affected cells it reads
    update_order,      \* worker: the part of the sorted order still to recompute
    wexpr,             \* worker: expression snapshot of the cell being recomputed
    wvars,             \* worker: variables gathered for it
    wtime,             \* worker: timestamp of the recomputation
    superseded,        \* history: a set committed to the cell under recomputation after
                       \*          the worker read that cell's expression
    producer,          \* history: per cell, the expression its stored value was evaluated from
    last_setter,       \* history: per cell, the session whose set committed to it last
    newest,            \* history: per cell, the set call with the greatest start timestamp
    repeat_of,         \* history: per session, the store a set found when it repeats the
                       \*          session's previous set on a sheet at rest; <<>> otherwise
    commit_order       \* history: the cells of the sets committed so far, in commit order

sessionVars == <<pc, cmd, current_time, variables, pos, acc, old_dependents, reply, asked, written,
                 prog, budget, gets>>
workerVars == <<wpc, event, to_process, discovered, dependency_graph, update_order, wexpr, wvars, wtime>>
historyVars == <<superseded, producer, last_setter, newest, repeat_of, commit_order>>
vars == <<cells, lock, chan, clock, fresh, sessionVars, workerVars, historyVars>>

\* ---------------------------------------------------------------- helpers
\* a send that puts the message before the messages that wait
SentFirst(ch, msg) == <<msg>> \o ch

\* mpsc::Sender::send, lines 219 and 618: the message goes to the back of the channel
Sent(ch, msg) == Append(ch, msg)

MapPut(m, k, v) == [x \in (DOMAIN m) \cup {k} |-> IF x = k THEN v ELSE m[x]]

CellInfo(value, expression, dependencies, dependents, time) ==
    [value |-> value, expression |-> expression, dependencies |-> dependencies,
     dependents |-> dependents, last_update_time |-> time]

\* ------------------------------------------------------- Spreadsheet::get
\* get with a scan that stops after the first dependency
DepHasErrorFirstOnly(cs, deps, i) ==
    i = 1 /\ deps # <<>> /\ deps[1] \in DOMAIN cs /\ IsError(cs[deps[1]].value)

RECURSIVE DepHasError(_, _, _)
DepHasError(cs, deps, i) ==
    IF i > Len(deps) THEN FALSE
    ELSE IF deps[i] \in DOMAIN cs /\ IsError(cs[deps[i]].value) THEN TRUE
    ELSE DepHasError(cs, deps, i + 1)

get(cs, cell_id) ==
    IF cell_id \in DOMAIN cs
    THEN IF DepHasError(cs, cs[cell_id].dependencies, 1)
         THEN VariableDependsOnError
         ELSE cs[cell_id].value
    ELSE None

\* get_range_argument, lines 300-309: does any cell of the range hold an error
has_errors(cs, start, end) ==
    \E i \in DOMAIN RangeCells(start, end) :
        LET id == RangeCells(start, end)[i]
        IN id \in DOMAIN cs /\ IsError(cs[id].value)

\* ------------------------------------------ the clock (std::time::Instant)
\* Instant::now() never goes back.  Two readings are equal only when no step
\* of any thread separates them (two threads reading at the same instant).
Readings == IF fresh THEN {clock, clock + 1} ELSE {clock + 1}

\* ------------------------------------------------------------- the clients
\* Command::Set { cell_identifier, cell_expr } and Command::Get { cell_identifier }
Command(c, e) == [cell |-> c, expr |-> e]
Get(c) == Command(c, NoExpr)
IsGet(c) == c.expr = NoExpr
NoCommand == Command(A1, NoExpr)

\* what an unscripted client may send
Commands ==
    {Command(A1, Lit(k)) : k \in 1..MaxLit}
    \cup {Command(A1, Bad)}
    \cup {Command(B1, Add(<<Scalar(A1)>>, 1))}
    \cup {Command(B1, Lit(k)) : k \in 1..MaxLit}
    \cup {Command(C1, Sum(A1, B1))}

Offered(s) ==
    IF prog[s] # <<>> THEN {Head(prog[s])}
    ELSE IF budget > 0 THEN Commands ELSE {}

NoReply == [cell |-> A1, value |-> None]

\* rsheet_lib::cells::column_number_to_name, on the columns of the model
column_number_to_name(col) == <<"A", "B", "C">>[col + 1]

\* lib.rs lines 32-36: the display name, column letters and one-based row
CellName(cell_identifier) == <<column_number_to_name(cell_identifier.col), cell_identifier.row + 1>>

\* Reply::Value(name, value) and Reply::Error(message)
ReplyValue(name, value) == [kind |-> "Value", name |-> name, value |-> value, msg |-> ""]
ReplyError(msg) == [kind |-> "Error", name |-> <<>>, value |-> None, msg |-> msg]

\* a handler that turns every error value into the error reply
ReplyForAnyError(cell_identifier, value) ==
    IF IsError(value) THEN ReplyError("Cell depends on another error cell")
    ELSE ReplyValue(CellName(cell_identifier), value)

\* lib.rs lines 37-43: the reply to a get
ReplyFor(cell_identifier, value) ==
    IF value = VariableDependsOnError THEN ReplyError("Cell depends on another error cell")
    ELSE ReplyValue(CellName(cell_identifier), value)

\* the store without its timestamps
Stored(cs) ==
    [c \in DOMAIN cs |->
        [value |-> cs[c].value, expression |-> cs[c].expression,
         dependencies |-> cs[c].dependencies, dependents |-> cs[c].dependents]]

\* ------------------------------------------------------------------ Init
InitWith(programs, free_sets, free_gets) ==
    /\ cells = <<>>
    /\ lock = Free
    /\ chan = <<>>
    /\ clock = 0
    /\ fresh = FALSE
    /\ pc = [s \in Sessions |-> "idle"]
    /\ cmd = [s \in Sessions |-> NoCommand]
    /\ current_time = [s \in Sessions |-> 0]
    /\ variables = [s \in Sessions |-> <<>>]
    /\ pos = [s \in Sessions |-> 1]
    /\ acc = [s \in Sessions |-> <<>>]
    /\ old_dependents = [s \in Sessions |-> {}]
    /\ reply = [s \in Sessions |-> NoReply]
    /\ asked = [s \in Sessions |-> <<>>]
    /\ written = [s \in Sessions |-> <<>>]
    /\ prog \in programs
    /\ budget = IF \A s \in Sessions : prog[s] = <<>> THEN free_sets ELSE 0
    /\ gets = free_gets
    /\ wpc = "recv"
    /\ event = <<>>
    /\ to_process = <<>>
    /\ discovered = {}
    /\ dependency_graph = <<>>
    /\ update_order = <<>>
    /\ wexpr = NoExpr
    /\ wvars = <<>>
    /\ wtime = 0
    /\ superseded = FALSE
    /\ producer = [c \in Cells |-> NoExpr]
    /\ last_setter = [c \in Cells |-> Free]
    /\ newest = [c \in Cells |-> [time |-> 0, expr |-> NoExpr, tied |-> FALSE]]
    /\ repeat_of = [s \in Sessions |-> <<>>]
    /\ commit_order = <<>>

\* what the two sessions send, each in its order
Script(p1, p2) == [s \in Sessions |-> IF s = "s1" THEN p1 ELSE p2]
NoPrograms == Script(<<>>, <<>>)

APlus(k) == Add(<<Scalar(A1)>>, k)                  \* "A1 + k"
BPlus(k) == Add(<<Scalar(B1)>>, k)                  \* "B1 + k"
ABPlus(k) == Add(<<Scalar(A1), Scalar(B1)>>, k)     \* "A1 + B1 + k"

\* a formula cell is given a literal while its producer's change event is pending
Overwrite == {Script(<<Command(A1, Lit(1)), Command(B1, APlus(1)), Command(B1, Lit(k))>>, <<>>) : k \in 1..MaxLit}

\* tests::test_dependencies, test_multi_level_dependency, test_range_sum_with_updates:
\* one session, producers first, then the producer A1 is reassigned
Direct == {Script(<<Command(A1, Lit(1)), Command(B1, APlus(1)), Command(A1, Lit(k))>>, <<>>) : k \in 1..MaxLit}
Chain == {Script(<<Command(A1, Lit(1)), Command(B1, APlus(1)), Command(C1, BPlus(1)), Command(A1, Lit(k))>>, <<>>) : k \in 1..MaxLit}
Diamond == {Script(<<Command(A1, Lit(1)), Command(B1, APlus(1)), Command(C1, ABPlus(1)), Command(A1, Lit(k))>>, <<>>) : k \in 1..MaxLit}
RangeSum == {Script(<<Command(A1, Lit(1)), Command(B1, Lit(1)), Command(C1, Sum(A1, B1)), Command(A1, Lit(k))>>, <<>>) : k \in 1..MaxLit}
PropagationPrograms == Direct \cup Chain \cup Diamond \cup RangeSum

\* tests::test_range_sum_with_error: a cell of a summed range is given an invalid expression
RangeError == {Script(<<Command(A1, Lit(k)), Command(B1, Lit(1)), Command(C1, Sum(A1, B1)), Command(B1, Bad)>>, <<>>) : k \in 1..MaxLit}

\* a set is sent twice in a row: by a consumer, by a producer, by a cell that reads itself
Twice == {Script(<<Command(A1, Lit(k)), Command(B1, APlus(1)), Command(B1, APlus(1))>>, <<>>) : k \in 1..MaxLit}
TwiceProducer == {Script(<<Command(A1, Lit(1)), Command(B1, APlus(1)), Command(A1, Lit(k)), Command(A1, Lit(k))>>, <<>>) : k \in 1..MaxLit}
TwiceRange == {Script(<<Command(A1, Lit(k)), Command(B1, Lit(1)), Command(C1, Sum(A1, B1)), Command(C1, Sum(A1, B1))>>, <<>>) : k \in 1..MaxLit}
SelfRead == {Script(<<Command(A1, APlus(k)), Command(A1, APlus(k))>>, <<>>) : k \in 1..MaxLit}
MutualTwice == {Script(<<Command(A1, Lit(1)), Command(B1, APlus(1)), Command(A1, BPlus(k)), Command(A1, BPlus(k))>>, <<>>) : k \in 1..MaxLit}

\* tests::test_error_propagation, continued: the error cell is given a valid expression
Recovery == {Script(<<Command(A1, Bad), Command(B1, APlus(1)), Command(C1, BPlus(1)), Command(A1, Lit(k))>>, <<>>) : k \in 1..MaxLit}

\* the same recovery for a consumer that was assigned before the cell it reads
Unlinked == {Script(<<Command(C1, Lit(1)), Command(B1, Add(<<Scalar(A1), Scalar(C1)>>, 1)), Command(A1, Bad),
                      Command(C1, Lit(2)), Command(A1, Lit(k))>>, <<>>) : k \in 1..MaxLit}

\* C1 reads B1 before B1 exists; then the producer of both is reassigned
Late == {Script(<<Command(A1, Lit(1)), Command(C1, ABPlus(1)), Command(B1, APlus(1)), Command(A1, Lit(k))>>, <<>>) : k \in 1..MaxLit}

\* two cells that read each other, then a range over both
Mutual == {Script(<<Command(A1, Lit(1)), Command(B1, APlus(1)), Command(A1, BPlus(1)), Command(C1, Sum(A1, B1)), Get(C1)>>, <<>>)}

\* two clients that ask for what they and the other have set
Dialogue == {Script(<<Command(A1, Bad), Command(B1, APlus(1)), Get(B1), Get(A1), Command(A1, Lit(k)), Get(B1)>>,
                    <<Get(A1), Get(B1)>>) : k \in 1..MaxLit}

ScenarioPrograms ==
    Twice \cup TwiceProducer \cup TwiceRange \cup SelfRead \cup MutualTwice
    \cup Recovery \cup Unlinked \cup Late \cup Dialogue
CyclePrograms == SelfRead \cup Mutual

\* tests::test_vector_and_matrix: sums over a column, a row and a block of
\* the 2x2 grid A1..B2, then the first cell of the range is reassigned
Column == {Script(<<Command(A1, Lit(1)), Command(A2, Lit(2)), Command(C1, Sum(A1, A2)), Command(A1, Lit(k)), Get(C1)>>, <<>>)
             : k \in 1..MaxLit}
Row == {Script(<<Command(A1, Lit(1)), Command(B1, Lit(2)), Command(C1, Sum(A1, B1)), Command(A1, Lit(k)), Get(C1)>>, <<>>)
          : k \in 1..MaxLit}
Block == {Script(<<Command(A1, Lit(1)), Command(A2, Lit(2)), Command(C1, Sum(A1, B2)), Command(A1, Lit(k)), Get(C1)>>, <<>>)
            : k \in 1..MaxLit}

\* a range written backwards, "sum(B1_A1)", in a cell that another cell reads
Reversed == {Script(<<Command(A1, Lit(k)), Command(C1, Sum(B1, A1)), Command(B1, Add(<<Scalar(C1)>>, 1)), Get(C1)>>, <<>>)
               : k \in 1..MaxLit}

ShapePrograms == Column \cup Row \cup Block \cup Reversed

\* a fresh Spreadsheet::new(); clients that send what they like, or a script
Init == InitWith({NoPrograms} \cup Overwrite \cup RangeError, MaxSets, MaxGets)

\* a fresh Spreadsheet::new(), one session that builds a sheet and reassigns A1,
\* and a single get by either client
InitPropagate == InitWith(PropagationPrograms, 0, 1)

\* a fresh Spreadsheet::new() and clients that repeat, repair and ask
InitScenarios == InitWith(ScenarioPrograms, 0, 0)

\* a fresh Spreadsheet::new() and one session that builds a cycle of reads
InitCycle == InitWith(CyclePrograms, 0, 0)
InitShapes == InitWith(ShapePrograms, 0, 0)

\* ------------------------------------------------- Spreadsheet::set, start
\* lines 122-140: stamp the time, parse, list the dependencies
SetStart(s) ==
    /\ pc[s] = "idle"
    /\ \E c \in Offered(s), t \in Readings :
        /\ ~IsGet(c)
        /\ clock' = t
        /\ fresh' = TRUE
        /\ cmd' = [cmd EXCEPT ![s] = c]
        /\ current_time' = [current_time EXCEPT ![s] = t]
        /\ pc' = [pc EXCEPT ![s] = IF Len(find_variable_names(c.expr)) = 0 THEN "update" ELSE "resolve"]
        /\ newest' = [newest EXCEPT ![c.cell] =
                        IF t > @.time THEN [time |-> t, expr |-> c.expr, tied |-> FALSE]
                        ELSE IF t = @.time THEN [@ EXCEPT !.tied = TRUE]
                        ELSE @]
        /\ repeat_of' = [repeat_of EXCEPT ![s] =
                            IF /\ c = cmd[s]
                               /\ chan = <<>> /\ wpc = "recv"
                               /\ \A x \in Sessions \ {s} : pc[x] \in {"idle", "reply"}
                            THEN Stored(cells) ELSE <<>>]
    /\ variables' = [variables EXCEPT ![s] = <<>>]
    /\ pos' = [pos EXCEPT ![s] = 1]
    /\ prog' = [prog EXCEPT ![s] = IF @ # <<>> THEN Tail(@) ELSE @]
    /\ budget' = IF prog[s] # <<>> THEN budget ELSE budget - 1
    /\ UNCHANGED <<cells, lock, chan, acc, old_dependents, reply, asked, written, gets, workerVars,
                   superseded, producer, last_setter, commit_order>>

\* where resolve_variables goes after the variable at pos[s]
AfterVariable(s) ==
    IF pos[s] >= Len(find_variable_names(cmd[s].expr)) THEN "update" ELSE "resolve"

\* a thread that keeps the guard it took after the block that took it
Kept(thread) == thread

\* get, lines 89-103, get_range_argument, line 310, and the worker's gather,
\* lines 516-582: the MutexGuard is dropped where its block ends, so the
\* mutex is free again when the thread goes on to evaluate
Released(thread) == Free

\* resolve_variables, lines 240-254, one variable name: a scalar through get,
\* a range through the error check of get_range_argument (lines 297-314)
Resolve(s) ==
    /\ pc[s] = "resolve"
    /\ LET tk == find_variable_names(cmd[s].expr)[pos[s]]
           cs == RangeCells(tk.start, tk.end)
           bind(arg) == /\ variables' = [variables EXCEPT ![s] = MapPut(@, tk, arg)]
                        /\ pos' = [pos EXCEPT ![s] = @ + 1]
                        /\ pc' = [pc EXCEPT ![s] = AfterVariable(s)]
       IN IF ~tk.ok
          THEN /\ pos' = [pos EXCEPT ![s] = @ + 1]
               /\ pc' = [pc EXCEPT ![s] = AfterVariable(s)]
               /\ UNCHANGED <<variables, lock>>
          ELSE /\ lock = Free
               /\ lock' = Released(s)
               /\ IF tk.kind = "scalar" THEN bind(ArgValue(get(cells, tk.start)))
                  ELSE IF has_errors(cells, tk.start, tk.end) THEN bind(ArgValue(VariableDependsOnError))
                  ELSE IF cs = <<>> THEN bind(Shaped(tk.start, tk.end, <<>>))
                  ELSE /\ pc' = [pc EXCEPT ![s] = "range"]
                       /\ UNCHANGED <<variables, pos>>
    /\ fresh' = FALSE
    /\ UNCHANGED <<cells, chan, clock, cmd, current_time, acc, old_dependents, reply, asked, written,
                   prog, budget, gets, workerVars, historyVars>>

\* get_vertical_vector / get_horizontal_vector / get_matrix, lines 338-392:
\* one self.get per cell of the range, each in its own critical section
RangeCell(s) ==
    /\ pc[s] = "range"
    /\ lock = Free
    /\ lock' = Released(s)
    /\ LET tk == find_variable_names(cmd[s].expr)[pos[s]]
           cs == RangeCells(tk.start, tk.end)
           got == Append(acc[s], get(cells, cs[Len(acc[s]) + 1]))
       IN IF Len(got) = Len(cs)
          THEN /\ variables' = [variables EXCEPT ![s] = MapPut(@, tk, Shaped(tk.start, tk.end, got))]
               /\ acc' = [acc EXCEPT ![s] = <<>>]
               /\ pos' = [pos EXCEPT ![s] = @ + 1]
               /\ pc' = [pc EXCEPT ![s] = AfterVariable(s)]
          ELSE /\ acc' = [acc EXCEPT ![s] = got]
               /\ UNCHANGED <<variables, pos, pc>>
    /\ fresh' = FALSE
    /\ UNCHANGED <<cells, chan, clock, cmd, current_time, old_dependents, reply, asked, written,
                   prog, budget, gets, workerVars, historyVars>>

\* -------------------------------------------- Spreadsheet::update_cell_info
\* an update that leaves the old reverse edges in place
unlinkNothing(cs, cell_id, old_dependencies) == cs

\* lines 192-197: take cell_id out of the dependents of its old dependencies
unlink(cs, cell_id, old_dependencies) ==
    [c \in DOMAIN cs |->
        IF c \in SeqRange(old_dependencies)
        THEN [cs[c] EXCEPT !.dependents = @ \ {cell_id}]
        ELSE cs[c]]

\* lines 199-204: put cell_id into the dependents of the dependencies that exist
link(cs, cell_id, dependencies) ==
    [c \in DOMAIN cs |->
        IF c \in SeqRange(dependencies)
        THEN [cs[c] EXCEPT !.dependents = @ \cup {cell_id}]
        ELSE cs[c]]

\* the two loops in the other order: link to the new dependencies, then unlink the old
relinkSwapped(cs, cell_id, old_dependencies, dependencies) ==
    unlink(link(cs, cell_id, dependencies), cell_id, old_dependencies)

\* lines 192-204: the reverse edges of cell_id, old ones out, new ones in
relink(cs, cell_id, old_dependencies, dependencies) ==
    link(unlink(cs, cell_id, old_dependencies), cell_id, dependencies)

\* update_cell_info with the guard dropped once the reverse edges are rewritten
GuardDropped(s) == Free

\* the MutexGuard taken at line 183 lives to the end of the function
Guard(s) == s

\* a set that stores the evaluator's signal as a local error
SetValueLocal(expr, vs) == IF evaluate(expr, vs).ok THEN evaluate(expr, vs).val ELSE Error("EvalError")

\* the value set commits, lines 144-159: Ok(value), or the transitive error
SetValue(expr, vs) == evaluate(expr, vs).val

\* the cell the worker is recomputing, between reading its expression and committing
Recomputing == IF wpc \in {"gather", "now", "commit"} THEN {Head(update_order)} ELSE {}

\* an update that starts every record with an empty set of dependents
NoDependents(cs, cell_id) == {}

\* lines 186-190: the clone of the old record's dependents, empty for a new cell
OldDependents(cs, cell_id) == IF cell_id \in DOMAIN cs THEN cs[cell_id].dependents ELSE {}

\* lines 183-204: lock, remember the old record, rewrite the reverse edges
UpdateLink(s) ==
    /\ pc[s] = "update"
    /\ lock = Free
    /\ LET cell_id == cmd[s].cell
           old == cell_id \in DOMAIN cells
           old_dependencies == IF old THEN cells[cell_id].dependencies ELSE <<>>
       IN /\ old_dependents' = [old_dependents EXCEPT ![s] = OldDependents(cells, cell_id)]
          /\ cells' = relink(cells, cell_id, old_dependencies, Dependencies(cmd[s].expr))
    /\ lock' = Guard(s)
    /\ pc' = [pc EXCEPT ![s] = "insert"]
    /\ fresh' = FALSE
    /\ UNCHANGED <<chan, clock, cmd, current_time, variables, pos, acc, reply, asked, written,
                   prog, budget, gets, workerVars, historyVars>>

\* an update that returns without giving the mutex back
GuardLeaked(s) == s

\* update_cell_info, line 224: the guard goes out of scope when the function returns
GuardGone(s) == Free

\* lines 206-223: insert the record, send the change event, unlock, return Ok
UpdateInsert(s) ==
    /\ pc[s] = "insert"
    /\ LET cell_id == cmd[s].cell
           expression == cmd[s].expr
       IN /\ cells' = MapPut(cells, cell_id,
                        CellInfo(SetValue(expression, variables[s]), expression, Dependencies(expression),
                                 old_dependents[s], current_time[s]))
          /\ chan' = Sent(chan, cell_id)
          /\ producer' = [producer EXCEPT ![cell_id] = expression]
          /\ last_setter' = [last_setter EXCEPT ![cell_id] = s]
          /\ superseded' = (superseded \/ cell_id \in Recomputing)
    /\ lock' = GuardGone(s)
    /\ pc' = [pc EXCEPT ![s] = "idle"]
    /\ current_time' = [current_time EXCEPT ![s] = 0]
    /\ variables' = [variables EXCEPT ![s] = <<>>]
    /\ pos' = [pos EXCEPT ![s] = 1]
    /\ old_dependents' = [old_dependents EXCEPT ![s] = {}]
    /\ fresh' = FALSE
    /\ repeat_of' = [x \in Sessions |-> IF x = s THEN repeat_of[s] ELSE <<>>]
    /\ commit_order' = Append(commit_order, cmd[s].cell)
    /\ UNCHANGED <<clock, cmd, acc, reply, asked, written, prog, budget, gets, workerVars, newest>>

\* ------------------------------------------------ lib.rs::handle_connection
\* Command::Get, lines 31-44: one critical section of Spreadsheet::get
SessionGet(s) ==
    /\ pc[s] = "idle"
    /\ lock = Free
    /\ \E c \in Cells :
        /\ \/ /\ prog[s] # <<>> /\ Head(prog[s]) = Get(c)      \* the script's next command
              /\ prog' = [prog EXCEPT ![s] = Tail(@)]
              /\ UNCHANGED gets
           \/ /\ gets > 0                                      \* a get of the client's own
              /\ gets' = gets - 1
              /\ UNCHANGED prog
        /\ reply' = [reply EXCEPT ![s] = [cell |-> c, value |-> get(cells, c)]]
        /\ asked' = [asked EXCEPT ![s] = Append(@, [cell |-> c, value |-> get(cells, c)])]
    /\ pc' = [pc EXCEPT ![s] = "reply"]
    /\ fresh' = FALSE
    /\ UNCHANGED <<cells, lock, chan, clock, cmd, current_time, variables, pos, acc, old_dependents,
                   written, budget, workerVars, historyVars>>

\* lines 59-63: write the reply and read the next message
WriteReply(s) ==
    /\ pc[s] = "reply"
    /\ written' = [written EXCEPT ![s] = Append(@, ReplyFor(reply[s].cell, reply[s].value))]
    /\ reply' = [reply EXCEPT ![s] = NoReply]
    /\ pc' = [pc EXCEPT ![s] = "idle"]
    /\ fresh' = FALSE
    /\ UNCHANGED <<cells, lock, chan, clock, cmd, current_time, variables, pos, acc, old_dependents,
                   asked, prog, budget, gets, workerVars, historyVars>>

\* ------------------------------------- Spreadsheet::process_cells_update
\* every order in which a HashSet can be iterated
RECURSIVE Orders(_)
Orders(S) == IF S = {} THEN {<<>>} ELSE UNION {{<<x>> \o o : o \in Orders(S \ {x})} : x \in S}

InSeq(x, sq) == \E i \in DOMAIN sq : sq[i] = x

\* lines 453-484, fn visit: the vectors `sorted` it can leave behind, over the
\* iteration orders of the HashSet graph[node]; permanent_marks is the set of
\* the cells already in `sorted`
RECURSIVE visit(_, _, _, _), visit_each(_, _, _, _)
visit(node, graph, temporary_marks, sorted) ==
    IF InSeq(node, sorted) \/ node \in temporary_marks THEN {sorted}
    ELSE LET deps == IF node \in DOMAIN graph THEN graph[node] ELSE {}
         IN {Append(sq, node) : sq \in visit_each(deps, graph, temporary_marks \cup {node}, sorted)}

visit_each(nodes, graph, temporary_marks, sorted) ==
    IF nodes = {} THEN {sorted}
    ELSE UNION {UNION {visit_each(nodes \ {n}, graph, temporary_marks, sq) :
                          sq \in visit(n, graph, temporary_marks, sorted)} : n \in nodes}

\* a sort that lists consumers before the cells they read
TopoOrdersReversed(graph) ==
    {[i \in DOMAIN sq |-> sq[Len(sq) + 1 - i]] : sq \in visit_each(DOMAIN graph, graph, {}, <<>>)}

\* lines 447-497: DFS from every key of dependency_graph, in any HashMap order
TopoOrders(graph) == visit_each(DOMAIN graph, graph, {}, <<>>)

\* lines 514-582: the worker's own variable gather, one critical section, raw values
RECURSIVE GatherFrom(_, _, _)
GatherFrom(cs, names, i) ==
    IF i > Len(names) THEN <<>>
    ELSE LET tk == names[i]
             rest == GatherFrom(cs, names, i + 1)
             raw(id) == IF id \in DOMAIN cs THEN cs[id].value ELSE None
             rc == RangeCells(tk.start, tk.end)
         IN IF tk.kind = "scalar"
            THEN (IF tk.ok /\ tk.start \in DOMAIN cs THEN MapPut(rest, tk, ArgValue(cs[tk.start].value)) ELSE rest)
            ELSE (IF parse_range(tk)
                  THEN MapPut(rest, tk, Shaped(tk.start, tk.end, [j \in DOMAIN rc |-> raw(rc[j])]))
                  ELSE rest)

gather(cs, expr) == GatherFrom(cs, find_variable_names(expr), 1)

\* lines 586-606: Ok(new_value), or the transitive error
RecomputedValue(expr, vs) == evaluate(expr, vs).val

\* a guard that lets a recomputation with an equal stamp through
NewerOrEqual(time, last_update_time) == time >= last_update_time

\* lines 591 and 600: the guard of the worker's commit
Newer(time, last_update_time) == time > last_update_time

\* a search that queues every dependent, discovered or not
EveryDependent(dependents, seen) == dependents

\* lines 436-441: the dependents the BFS has not discovered yet
Undiscovered(dependents, seen) == dependents \ seen

\* lines 411-423: receive a change event, start the BFS at its cell
Recv ==
    /\ wpc = "recv"
    /\ chan # <<>>
    /\ Head(chan) # Shutdown
    /\ chan' = Tail(chan)
    /\ event' = <<Head(chan)>>
    /\ to_process' = <<Head(chan)>>
    /\ discovered' = {Head(chan)}
    /\ dependency_graph' = <<>>
    /\ wpc' = "bfs"
    /\ fresh' = FALSE
    /\ UNCHANGED <<cells, lock, clock, sessionVars, update_order, wexpr, wvars, wtime, historyVars>>

\* lines 426-445, one iteration: the dependents of the cell at the head of the
\* queue, read in one critical section; after the last iteration the
\* topological sort of lines 447-497
Bfs ==
    /\ wpc = "bfs"
    /\ lock = Free
    /\ LET current_id == Head(to_process)
           dependents == IF current_id \in DOMAIN cells THEN cells[current_id].dependents ELSE {}
           graph == [n \in (DOMAIN dependency_graph) \cup dependents |->
                        (IF n \in DOMAIN dependency_graph THEN dependency_graph[n] ELSE {})
                        \cup (IF n \in dependents THEN {current_id} ELSE {})]
       IN \E pushed \in Orders(Undiscovered(dependents, discovered)) :
            LET queue == Tail(to_process) \o pushed
            IN IF queue # <<>>
               THEN /\ to_process' = queue
                    /\ discovered' = discovered \cup dependents
                    /\ dependency_graph' = graph
                    /\ UNCHANGED <<wpc, event, update_order>>
               ELSE /\ \E sorted \in TopoOrders(graph) :
                         /\ update_order' = sorted
                         /\ wpc' = IF sorted = <<>> THEN "recv" ELSE "expr"
                         /\ event' = IF sorted = <<>> THEN <<>> ELSE event
                    /\ to_process' = <<>>
                    /\ discovered' = {}
                    /\ dependency_graph' = <<>>
    /\ fresh' = FALSE
    /\ UNCHANGED <<cells, lock, chan, clock, sessionVars, wexpr, wvars, wtime, historyVars>>

\* lines 500-508: snapshot the expression of the next cell of the order
ReadExpr ==
    /\ wpc = "expr"
    /\ lock = Free
    /\ IF Head(update_order) \in DOMAIN cells
       THEN /\ wexpr' = cells[Head(update_order)].expression
            /\ wpc' = "gather"
            /\ UNCHANGED <<update_order, event>>
       ELSE /\ update_order' = Tail(update_order)
            /\ wpc' = IF Tail(update_order) = <<>> THEN "recv" ELSE "expr"
            /\ event' = IF Tail(update_order) = <<>> THEN <<>> ELSE event
            /\ UNCHANGED wexpr
    /\ superseded' = FALSE
    /\ fresh' = FALSE
    /\ UNCHANGED <<cells, lock, chan, clock, sessionVars, to_process, discovered, dependency_graph,
                   wvars, wtime, producer, last_setter, newest, repeat_of, commit_order>>

\* lines 514-582: gather the variables
Gather ==
    /\ wpc = "gather"
    /\ lock = Free
    /\ lock' = Released(WorkerThread)
    /\ wvars' = gather(cells, wexpr)
    /\ wpc' = "now"
    /\ fresh' = FALSE
    /\ UNCHANGED <<cells, chan, clock, sessionVars, event, to_process, discovered, dependency_graph,
                   update_order, wexpr, wtime, historyVars>>

\* line 585: stamp the recomputation
Now ==
    /\ wpc = "now"
    /\ \E t \in Readings :
        /\ clock' = t
        /\ wtime' = t
    /\ fresh' = TRUE
    /\ wpc' = "commit"
    /\ UNCHANGED <<cells, lock, chan, sessionVars, event, to_process, discovered, dependency_graph,
                   update_order, wexpr, wvars, historyVars>>

\* a commit that builds the record anew, as set does for a cell nothing reads yet
Rebuilt(cell, value, time) == CellInfo(value, cell.expression, cell.dependencies, {}, time)

\* lines 592-593 and 602-604: the two fields the worker assigns
Recomputation(cell, value, time) == [cell EXCEPT !.value = value, !.last_update_time = time]

\* lines 586-607: evaluate, then commit under the lock if the stamp is newer
Commit ==
    /\ wpc = "commit"
    /\ lock = Free
    /\ LET cell_id == Head(update_order)
       IN IF cell_id \in DOMAIN cells /\ Newer(wtime, cells[cell_id].last_update_time)
          THEN /\ cells' = [cells EXCEPT ![cell_id] = Recomputation(@, RecomputedValue(wexpr, wvars), wtime)]
               /\ producer' = [producer EXCEPT ![cell_id] = wexpr]
          ELSE UNCHANGED <<cells, producer>>
    /\ update_order' = Tail(update_order)
    /\ wpc' = IF Tail(update_order) = <<>> THEN "recv" ELSE "expr"
    /\ event' = IF Tail(update_order) = <<>> THEN <<>> ELSE event
    /\ wexpr' = NoExpr
    /\ wvars' = <<>>
    /\ wtime' = 0
    /\ superseded' = FALSE
    /\ fresh' = FALSE
    /\ UNCHANGED <<lock, chan, clock, sessionVars, to_process, discovered, dependency_graph,
                   last_setter, newest, repeat_of, commit_order>>

\* ------------------------------------------------------------------- Next
Next ==
    \/ \E s \in Sessions : SetStart(s)
    \/ \E s \in Sessions : Resolve(s)
    \/ \E s \in Sessions : RangeCell(s)
    \/ \E s \in Sessions : UpdateLink(s)
    \/ \E s \in Sessions : UpdateInsert(s)
    \/ \E s \in Sessions : SessionGet(s)
    \/ \E s \in Sessions : WriteReply(s)
    \/ Recv
    \/ Bfs
    \/ ReadExpr
    \/ Gather
    \/ Now
    \/ Commit

Spec == Init /\ [][Next]_vars

SpecPropagate == InitPropagate /\ [][Next]_vars

SpecScenarios == InitScenarios /\ [][Next]_vars

\* the threads of the program: the worker (thread::spawn in Spreadsheet::new)
\* and one handler per connection (thread::spawn in start_server)
Worker == Recv \/ Bfs \/ ReadExpr \/ Gather \/ Now \/ Commit
Handler(s) == Resolve(s) \/ RangeCell(s) \/ UpdateLink(s) \/ UpdateInsert(s) \/ WriteReply(s)

\* the scheduler runs every thread that can take a step; a client may stay silent
Fairness == WF_vars(Worker) /\ \A s \in Sessions : WF_vars(Handler(s))

SpecCycle == InitCycle /\ [][Next]_vars /\ Fairness
SpecShapes == InitShapes /\ [][Next]_vars

\* two clients that set and get what they like, fairly scheduled threads
SpecFair == Init /\ [][Next]_vars /\ Fairness

\* ----------------------------------------------------------- the teardown
\* handle_connection, lines 64 and 60: the client closes the connection, the
\* handler returns and its clone of the Arc<Spreadsheet> is dropped
Close(s) ==
    /\ pc[s] = "idle"
    /\ prog[s] = <<>>
    /\ pc' = [pc EXCEPT ![s] = "closed"]
    /\ fresh' = FALSE
    /\ UNCHANGED <<cells, lock, chan, clock, cmd, current_time, variables, pos, acc, old_dependents, reply,
                   asked, written, prog, budget, gets, workerVars, historyVars>>

\* a sheet that is dropped as soon as one handler has returned
FirstOwnerGone == \E s \in Sessions : pc[s] = "closed"

\* start_server, lines 77, 84 and 95-99: the sheet lives in an Arc that every
\* handler holds a clone of, and the main thread joins every handler before
\* it lets go of its own
LastOwnerGone == \A s \in Sessions : pc[s] = "closed"

\* Drop for Spreadsheet, lines 615-620, run when the last Arc is gone
Drop ==
    /\ LastOwnerGone
    /\ wpc # "exit"
    /\ \A i \in DOMAIN chan : chan[i] # Shutdown
    /\ chan' = Sent(chan, Shutdown)
    /\ fresh' = FALSE
    /\ UNCHANGED <<cells, lock, clock, sessionVars, workerVars, historyVars>>

\* lines 411-413: the worker receives Shutdown and leaves its loop
Exit ==
    /\ wpc = "recv"
    /\ chan # <<>>
    /\ Head(chan) = Shutdown
    /\ chan' = Tail(chan)
    /\ wpc' = "exit"
    /\ fresh' = FALSE
    /\ UNCHANGED <<cells, lock, clock, sessionVars, event, to_process, discovered, dependency_graph,
                   update_order, wexpr, wvars, wtime, historyVars>>

NextTeardown ==
    \/ Next
    \/ \E s \in Sessions : Close(s)
    \/ Drop
    \/ Exit

InitTeardown == InitWith(ShapePrograms \cup Dialogue, 0, 0)

\* the main thread of start_server drops the sheet once it can; the worker
\* takes the message once it waits for one
SpecTeardown ==
    InitTeardown /\ [][NextTeardown]_vars /\ Fairness /\ WF_vars(Drop) /\ WF_vars(Exit)

Quiescent ==
    /\ \A s \in Sessions : pc[s] = "idle"
    /\ chan = <<>>
    /\ wpc = "recv"

\* ----------------------------------------------------------------- claims
\* the value the stored expression of c evaluates to on the stored values
Recomputed(cs, c) == RecomputedValue(cs[c].expression, gather(cs, cs[c].expression))

\* C1: once every set has returned and the worker has drained the channel,
\* every cell's stored value is the evaluation of its expression on the
\* current stored values of its dependencies.
C1_EventualConsistency ==
    Quiescent => \A c \in DOMAIN cells : cells[c].value = Recomputed(cells, c)

\* C2: after all sets on a cell have returned and the worker is quiescent, the
\* cell holds the expression, and a value of the expression, of the set call
\* with the greater start timestamp.
C2_LastWriteWins ==
    Quiescent =>
        \A c \in DOMAIN cells :
            ~newest[c].tied => cells[c].expression = newest[c].expr /\ producer[c] = newest[c].expr

\* C3: no step of a set or of the worker decreases a cell's last_update_time.
C3_TimestampMonotone ==
    [][\A c \in DOMAIN cells : cells'[c].last_update_time >= cells[c].last_update_time]_vars

\* C4: whenever the store can be observed, every existing cell D read by an
\* existing cell C has C among its dependents.
C4_BidirectionalDeps ==
    lock = Free =>
        \A c \in DOMAIN cells : \A i \in DOMAIN cells[c].dependencies :
            LET d == cells[c].dependencies[i]
            IN d \in DOMAIN cells => c \in cells[d].dependents

\* C5: a worker commit for a cell whose expression the worker read before a
\* set committed to that cell leaves the cell as the set left it.
C5_NoStaleRecompute ==
    [][(wpc = "commit" /\ wpc' # "commit" /\ superseded) => cells' = cells]_vars

\* C10: once quiescent, a cell whose last assignment was the literal "k"
\* reads as the integer k.
C10_LiteralRoundTrip ==
    Quiescent =>
        \A c \in DOMAIN cells :
            cells[c].expression.op = "lit" => get(cells, c) = IntVal(cells[c].expression.k)

\* the cells an expression reads: its scalars and every cell of its ranges
Reads(expr) ==
    {c \in Cells : \E i \in DOMAIN expr.names :
        LET tk == expr.names[i]
        IN /\ tk.ok
           /\ tk.start.col <= c.col /\ c.col <= tk.end.col
           /\ tk.start.row <= c.row /\ c.row <= tk.end.row}

Projection(cs, c) ==
    IF c \notin DOMAIN cs THEN None
    ELSE IF \E d \in Reads(cs[c].expression) : d \in DOMAIN cs /\ IsError(cs[d].value)
         THEN VariableDependsOnError
         ELSE cs[c].value

\* C6: in every store state, get of a never-assigned cell is absent, get of a
\* cell that reads (directly or through a range) an existing cell holding an
\* error is Error("VariableDependsOnError"), and any other get is the stored value.
C6_ReadTimeProjection == \A c \in Cells : get(cells, c) = Projection(cells, c)

\* a cell whose stored value is no error reads as the transitive error, because
\* a cell of the range it sums holds an error
C6_Witness ==
    \E c \in DOMAIN cells :
        /\ \E i \in DOMAIN cells[c].expression.names : cells[c].expression.names[i].kind = "range"
        /\ ~IsError(cells[c].value)
        /\ get(cells, c) = VariableDependsOnError

\* C7: a get of C by the session whose set(C, e) was the last set committed to
\* C returns a value evaluated from e (stored, or its read-time projection).
C7_ReadYourWrites ==
    [][\A s \in Sessions :
          LET c == cmd[s].cell
          IN (/\ pc[s] = "idle" /\ pc'[s] = "reply"
              /\ reply'[s].cell = c
              /\ cmd[s].expr # NoExpr
              /\ last_setter[c] = s)
             => /\ producer[c] = cmd[s].expr
                /\ reply'[s].value \in {cells[c].value, VariableDependsOnError}]_vars

\* C8: no get runs between the two halves of a set's commit: whenever a
\* session's get reads the store, no session has rewritten the reverse edges
\* without having inserted its record.
C8_SetAtomicForGet ==
    [][(\E s \in Sessions : pc[s] = "idle" /\ pc'[s] = "reply")
          => \A s2 \in Sessions : pc[s2] # "insert"]_vars

\* a get has just read the store and another session is in the middle of its commit
C8_Witness ==
    \E s, s2 \in Sessions : pc[s] = "reply" /\ pc[s2] = "insert" /\ lock = s2

\* C9: one session has assigned every cell after the cells it reads and then
\* reassigned A1; once it has returned and the worker has drained the channel,
\* every cell's stored value is its expression evaluated on the stored values.
C9_ChangePropagation ==
    (Quiescent /\ \A s \in Sessions : prog[s] = <<>>)
        => \A c \in DOMAIN cells : cells[c].value = Recomputed(cells, c)

\* the chain A1 <- B1 <- C1 after A1 := MaxLit has been propagated
C9_Witness ==
    /\ Quiescent
    /\ \A s \in Sessions : prog[s] = <<>>
    /\ C1 \in DOMAIN cells
    /\ cells[C1].expression = BPlus(1)
    /\ cells[A1].value = IntVal(MaxLit)
    /\ cells[C1].value = IntVal(MaxLit + 2)

\* the cells that read a cell of S, directly or through other cells, and S itself
ReadersOf(cs, S) == {x \in DOMAIN cs : \E d \in S : InSeq(d, cs[x].dependencies)}

RECURSIVE TransitiveReaders(_, _)
TransitiveReaders(cs, S) ==
    IF ReadersOf(cs, S) \subseteq S THEN S ELSE TransitiveReaders(cs, S \cup ReadersOf(cs, S))

\* a session commits the set it sent twice in a row, the second time on a sheet at rest
RepeatCommits(s) == pc[s] = "insert" /\ pc'[s] = "idle" /\ repeat_of[s] # <<>>

Settled == Quiescent /\ \A s \in Sessions : prog[s] = <<>>

\* C12: once the sets have returned and the worker has processed the change
\* events, a cell assigned a literal holds that literal, and no consumer is
\* left with Error("VariableDependsOnError") when every cell it reads is free of
\* errors: it holds a value that is no transitive error and get returns it.
C12_ErrorRecovery ==
    Settled =>
        \A c \in DOMAIN cells :
            /\ cells[c].expression.op = "lit" => cells[c].value = IntVal(cells[c].expression.k)
            /\ (\A d \in Reads(cells[c].expression) : d \in DOMAIN cells /\ ~IsError(cells[d].value))
                  => cells[c].value # VariableDependsOnError /\ get(cells, c) = cells[c].value

\* C13: every set that was started ends by its commit, whatever its expression
\* evaluates to; the commit stores the new expression and its dependencies,
\* sends exactly one change event for the cell and makes the handler write
\* nothing; a binding that carries an error stores
\* Error("VariableDependsOnError"), a local failure stores the local error.
C13_ErrorsStored ==
    [][\A s \in Sessions :
          /\ (pc[s] \in {"resolve", "range", "update", "insert"} /\ pc'[s] = "idle") => pc[s] = "insert"
          /\ (pc[s] = "insert" /\ pc'[s] = "idle") =>
                LET c == cmd[s].cell
                    e == cmd[s].expr
                    tainted == \E tk \in DOMAIN variables[s] :
                                  \E v \in ArgValues(variables[s][tk]) : IsError(v)
                IN /\ cells'[c].expression = e
                   /\ cells'[c].dependencies = Dependencies(e)
                   /\ chan' = Append(chan, c)
                   /\ written'[s] = written[s]
                   /\ reply'[s] = NoReply
                   /\ tainted => cells'[c].value = VariableDependsOnError
                   /\ (~tainted /\ e = Bad) => cells'[c].value = Error("EvalError")]_vars

\* B1 := "A1 + 1" has just been committed while A1 holds a local error: B1
\* holds the transitive error and its change event is the last one sent
C13_Witness ==
    /\ A1 \in DOMAIN cells /\ cells[A1].value = Error("EvalError")
    /\ B1 \in DOMAIN cells /\ cells[B1].expression = APlus(1)
    /\ cells[B1].value = VariableDependsOnError
    /\ chan # <<>> /\ chan[Len(chan)] = B1
    /\ last_setter[B1] # Free

\* C14: for every session, the replies written so far are the replies to the
\* gets read so far, one each and in the order they were read, the last one
\* still to be written while the handler holds it: the error reply "Cell
\* depends on another error cell" where get returned
\* Error("VariableDependsOnError"), otherwise the display name and the value;
\* a set that returns Ok writes nothing.
C14_ReplyContract ==
    \A s \in Sessions :
        LET pending == IF pc[s] = "reply" THEN 1 ELSE 0
        IN /\ Len(written[s]) + pending = Len(asked[s])
           /\ \A i \in DOMAIN written[s] :
                 LET answer == asked[s][i]
                     name == <<(<<"A", "B", "C">>)[answer.cell.col + 1], answer.cell.row + 1>>
                 IN written[s][i] =
                      IF answer.value = Error("VariableDependsOnError")
                      THEN [kind |-> "Error", name |-> <<>>, value |-> None,
                            msg |-> "Cell depends on another error cell"]
                      ELSE [kind |-> "Value", name |-> name, value |-> answer.value, msg |-> ""]

\* a session has set A1 and B1, and has been told that B1 depends on an error
\* cell and then that A1 holds a local error
C14_Witness ==
    \E s \in Sessions :
        /\ Len(written[s]) >= 2
        /\ last_setter[A1] = s /\ last_setter[B1] = s
        /\ written[s][1].kind = "Error"
        /\ written[s][2] = ReplyValue(<<"A", 1>>, Error("EvalError"))

\* C15: whenever the store can be observed, every member C of the dependents
\* of an existing cell D is an existing cell whose dependencies contain D.
C15_ReverseDepsSound ==
    lock = Free =>
        \A d \in DOMAIN cells : \A c \in cells[d].dependents :
            c \in DOMAIN cells /\ InSeq(d, cells[c].dependencies)

\* B1 read A1 and has been reassigned a literal: A1 has lost its dependent
C15_Witness ==
    /\ lock = Free
    /\ B1 \in DOMAIN cells /\ cells[B1].expression.op = "lit"
    /\ \E i \in DOMAIN chan : \E j \in DOMAIN chan : i < j /\ chan[i] = B1 /\ chan[j] = B1
    /\ A1 \in DOMAIN cells /\ cells[A1].dependents = {}
    /\ budget = 0 /\ prog["s1"] = <<>> /\ C1 \notin DOMAIN cells

\* C16: the worker's commit of a recomputation writes the recomputed value and
\* the recomputation's timestamp if that timestamp is strictly greater than
\* the cell's last_update_time, and leaves the cell as it is if the timestamp
\* is equal or smaller; it touches nothing else in the store.
C16_GuardedCommit ==
    [][(wpc = "commit" /\ wpc' # "commit" /\ Head(update_order) \in DOMAIN cells) =>
          LET c == Head(update_order)
          IN /\ DOMAIN cells' = DOMAIN cells
             /\ \A x \in DOMAIN cells \ {c} : cells'[x] = cells[x]
             /\ IF wtime > cells[c].last_update_time
                THEN cells'[c] = [cells[c] EXCEPT !.value = evaluate(wexpr, wvars).val,
                                                  !.last_update_time = wtime]
                ELSE cells'[c] = cells[c]]_vars

\* the worker is about to commit a recomputation stamped at the very instant
\* at which a set that has since committed to the same cell was stamped
C16_Witness ==
    /\ wpc = "commit"
    /\ lock = Free
    /\ Head(update_order) \in DOMAIN cells
    /\ wtime = cells[Head(update_order)].last_update_time
    /\ evaluate(wexpr, wvars).val # cells[Head(update_order)].value

\* C17: the worker never re-evaluates or writes the cell its change event
\* names: the cell whose expression it has read and is recomputing is never
\* the originating cell.
C17_OriginNotRecomputed ==
    wpc \in {"gather", "now", "commit"} => Head(update_order) # event[1]

\* the cells reached from the cells of S over dependents edges, and S itself
DependentsOf(cs, S) == UNION {cs[x].dependents : x \in S \cap DOMAIN cs}

RECURSIVE Affected(_, _)
Affected(cs, S) ==
    IF DependentsOf(cs, S) \subseteq S THEN S ELSE Affected(cs, S \cup DependentsOf(cs, S))

\* the cells reached from x over one or more dependents edges
ReachedFrom(cs, x) == Affected(cs, DependentsOf(cs, {x}))

\* no cell reads itself, directly or through other cells, and no cell is
\* reached from itself over dependents edges
Acyclic(cs) ==
    \A x \in DOMAIN cs :
        /\ x \notin TransitiveReaders(cs, ReadersOf(cs, {x}))
        /\ x \notin ReachedFrom(cs, x)

\* the last iteration of the BFS: with the dependents it reads now, the graph
\* the worker has built is the dependents relation of the store from the
\* originating cell on (no set has changed it during the search)
ViewIsStore ==
    LET current_id == Head(to_process)
        dependents == DependentsOf(cells, {current_id})
        seen == discovered \cup dependents
        graph(n) == (IF n \in DOMAIN dependency_graph THEN dependency_graph[n] ELSE {})
                    \cup (IF n \in dependents THEN {current_id} ELSE {})
    IN /\ seen = {event[1]} \cup ReachedFrom(cells, event[1])
       /\ \A n \in seen : graph(n) = {x \in seen \cap DOMAIN cells : n \in cells[x].dependents}

\* C18: when the worker has searched an acyclic sheet for a change event, its
\* update order contains every cell reached from the originating cell over
\* dependents edges exactly once, and every such cell after every other such
\* cell that it reads.
C18_TopologicalOrder ==
    [][(wpc = "bfs" /\ wpc' # "bfs" /\ ViewIsStore /\ Acyclic(cells)) =>
          LET affected == ReachedFrom(cells, event[1])
              order == update_order'
          IN /\ \A c \in affected : Cardinality({i \in DOMAIN order : order[i] = c}) = 1
             /\ \A i, j \in DOMAIN order :
                   (/\ order[i] \in affected /\ order[j] \in affected
                    /\ InSeq(order[i], cells[order[j]].dependencies)) => i < j]_vars

NoDuplicates(sq) == \A i, j \in DOMAIN sq : sq[i] = sq[j] => i = j

\* C19: whatever cycles the dependents relation holds, the BFS queues a cell at
\* most once and the update order holds a cell at most once for each change
\* event, the worker's search, sort and recomputation for an event come to an
\* end, and every change event sent is received.
C19_CycleRobust ==
    /\ [](NoDuplicates(to_process) /\ SeqRange(to_process) \subseteq discovered)
    /\ [](NoDuplicates(update_order))
    /\ (wpc # "recv") ~> (wpc = "recv")
    /\ <>[](chan = <<>>)

\* A1 and B1 read each other and are dependents of each other; the worker has
\* put both in the update order of one event, and the next event is waiting
C19_Witness ==
    /\ A1 \in DOMAIN cells /\ B1 \in DOMAIN cells
    /\ B1 \in cells[A1].dependents /\ A1 \in cells[B1].dependents
    /\ wpc = "expr"
    /\ Len(update_order) = 2
    /\ chan # <<>>

Evaluating(s) == pc[s] = "update"

\* worker, lines 584-588: the expression is evaluated after the gather and
\* before the commit
WorkerEvaluating == wpc \in {"now", "commit"}

\* C21: no thread holds the mutex while it evaluates an expression, neither a
\* session inside set nor the worker during a recomputation; the mutex is
\* held only by a session that is inside update_cell_info.
C21_EvaluateUnlocked ==
    /\ \A s \in Sessions : Evaluating(s) => lock # s
    /\ WorkerEvaluating => lock # WorkerThread
    /\ lock # Free => lock \in Sessions /\ pc[lock] = "insert"

\* a session evaluates while another session is inside its commit
C21_Witness ==
    \E s \in Sessions : \E o \in Sessions \ {s} : Evaluating(s) /\ lock = o /\ pc[o] = "insert"

\* resolve_variables, lines 239-255: the names of the expression a session resolves
Names(s) == find_variable_names(cmd[s].expr)

\* a session between two reads of one resolution: it has read the store for
\* a name, or for the error check of a range, and has a read still to make
Resolving(s) ==
    \/ pc[s] = "range"
    \/ /\ pc[s] = "resolve"
       /\ \E i \in 1..(pos[s] - 1) : Names(s)[i].ok
       /\ \E i \in pos[s]..Len(Names(s)) : Names(s)[i].ok

\* C22: a resolution reads one state of the store: while a session is
\* between two reads of one resolution, no step of another thread creates or
\* changes the value of a cell its expression reads.
C22_Snapshot ==
    [][\A s \in Sessions : Resolving(s) =>
          \A c \in Reads(cmd[s].expr) :
              /\ (c \in DOMAIN cells) = (c \in DOMAIN cells')
              /\ c \in DOMAIN cells => cells'[c].value = cells[c].value]_vars

\* no range of the bindings is bound to a vector or matrix that carries an error
NoErrorInside(bindings) ==
    \A tk \in DOMAIN bindings :
        tk.kind = "range" /\ bindings[tk].shape # "Value" =>
            \A v \in ArgValues(bindings[tk]) : ~IsError(v)

\* C23: in the bindings an expression is evaluated on, by set and by the
\* worker, a range with a cell that holds an error is the single scalar
\* Error("VariableDependsOnError"): no vector or matrix carries an error.
C23_RangeShortCircuit ==
    /\ \A s \in Sessions : Evaluating(s) => NoErrorInside(variables[s])
    /\ WorkerEvaluating => NoErrorInside(wvars)

\* what the store holds for a cell: absent when it was never assigned
StoredValue(cs, cell_id) == IF cell_id \in DOMAIN cs THEN cs[cell_id].value ELSE None

\* C24: both resolutions bind every scalar variable: when set resolves a
\* scalar name, and when the worker gathers the variables of an expression,
\* the name is bound to absent if its cell was never assigned and to the
\* value the store holds for the cell otherwise.
C24_ScalarBinding ==
    [][/\ \A s \in Sessions :
            pc[s] = "resolve" /\ pos'[s] = pos[s] + 1 =>
                LET tk == Names(s)[pos[s]]
                IN tk.kind = "scalar" /\ tk.ok =>
                      /\ tk \in DOMAIN variables'[s]
                      /\ variables'[s][tk] = ArgValue(StoredValue(cells, tk.start))
       /\ wpc = "gather" /\ wpc' = "now" =>
            \A i \in DOMAIN find_variable_names(wexpr) :
                LET tk == find_variable_names(wexpr)[i]
                IN tk.kind = "scalar" /\ tk.ok =>
                      /\ tk \in DOMAIN wvars'
                      /\ wvars'[tk] = ArgValue(StoredValue(cells, tk.start))]_vars

\* the n-th cell of a well-formed range, counted from 1: down the column,
\* along the row, or row by row through the block
NthCell(tk, n) ==
    LET w == tk.end.col - tk.start.col + 1
    IN IF tk.start.col = tk.end.col THEN [col |-> tk.start.col, row |-> tk.start.row + n - 1]
       ELSE IF tk.start.row = tk.end.row THEN [col |-> tk.start.col + n - 1, row |-> tk.start.row]
       ELSE [col |-> tk.start.col + ((n - 1) % w), row |-> tk.start.row + ((n - 1) \div w)]

\* the argument of a well-formed range whose cells, in the order of NthCell,
\* gave the values vals: a vector for a column or a row, else a matrix of rows
Bound(tk, vals) ==
    LET w == tk.end.col - tk.start.col + 1
        h == tk.end.row - tk.start.row + 1
    IN IF tk.start.col = tk.end.col \/ tk.start.row = tk.end.row
       THEN [shape |-> "Vector", rows |-> <<vals>>]
       ELSE [shape |-> "Matrix", rows |-> [r \in 1..h |-> SubSeq(vals, (r - 1) * w + 1, r * w)]]

WellFormed(tk) ==
    tk.kind = "range" /\ tk.ok /\ tk.start.col <= tk.end.col /\ tk.start.row <= tk.end.row

Size(tk) == (tk.end.col - tk.start.col + 1) * (tk.end.row - tk.start.row + 1)

\* C25: a well-formed range without errors is bound to the values of its
\* cells in order: a range in one column to the vector of its cells from
\* top to bottom, a range in one row to the vector of its cells from left to
\* right, any other range to the matrix of its rows, each from left to right;
\* a never-assigned cell gives absent.  set reads the cells one by one
\* through get; the worker reads the stored values in its gather.
C25_RangeShape ==
    [][/\ \A s \in Sessions :
            pc[s] = "range" /\ <<acc[s], pc[s]>> # <<acc'[s], pc'[s]>> =>
                LET tk == Names(s)[pos[s]]
                    n == Len(acc[s]) + 1
                    got == Append(acc[s], get(cells, NthCell(tk, n)))
                IN /\ WellFormed(tk)
                   /\ ~IsError(got[n]) => got[n] = StoredValue(cells, NthCell(tk, n))
                   /\ IF n < Size(tk)
                      THEN acc'[s] = got /\ pc'[s] = "range"
                      ELSE /\ pc'[s] # "range"
                           /\ variables'[s][tk] = Bound(tk, got)
       /\ wpc = "gather" /\ wpc' = "now" =>
            \A i \in DOMAIN find_variable_names(wexpr) :
                LET tk == find_variable_names(wexpr)[i]
                IN WellFormed(tk) /\ ~has_errors(cells, tk.start, tk.end) =>
                      wvars'[tk] = Bound(tk, [n \in 1..Size(tk) |-> StoredValue(cells, NthCell(tk, n))])]_vars

\* set has read the block A1_B2 cell by cell and committed its sum, and the
\* worker has bound the block, with A2 holding 2 and B1 and B2 never
\* assigned, to a matrix whose second row starts with 2
C25_Witness ==
    /\ wpc = "now"
    /\ C1 \in DOMAIN cells /\ cells[C1].expression = Sum(A1, B2)
    /\ \E tk \in DOMAIN wvars :
          /\ wvars[tk].shape = "Matrix"
          /\ wvars[tk].rows[2] = <<IntVal(2), None>>
          /\ wvars[tk].rows[1][2] = None

\* a range whose start lies right of or below its end
Malformed(tk) ==
    tk.kind = "range" /\ tk.ok /\ (tk.start.col > tk.end.col \/ tk.start.row > tk.end.row)

\* C26: a malformed range is skipped like a name that does not parse: it
\* gives the cell no dependency, and neither set nor the worker evaluates the
\* expression with a binding for it.
C26_MalformedSkipped ==
    /\ \A c \in DOMAIN cells :
          (\A i \in DOMAIN find_variable_names(cells[c].expression) :
                Malformed(find_variable_names(cells[c].expression)[i]))
              => cells[c].dependencies = <<>>
    /\ \A s \in Sessions : Evaluating(s) =>
          \A i \in DOMAIN Names(s) : Malformed(Names(s)[i]) => Names(s)[i] \notin DOMAIN variables[s]
    /\ WorkerEvaluating =>
          \A i \in DOMAIN find_variable_names(wexpr) :
              Malformed(find_variable_names(wexpr)[i]) => find_variable_names(wexpr)[i] \notin DOMAIN wvars

C28_CommitOrder ==
    \E n \in 0..Len(commit_order) :
        /\ chan = SubSeq(commit_order, n + 1, Len(commit_order))
        /\ event # <<>> => n >= 1 /\ event[1] = commit_order[n]

\* two sessions have committed, the first commit's event is being processed
\* and the second's waits
C28_Witness ==
    /\ Len(commit_order) = 2
    /\ last_setter[commit_order[1]] # last_setter[commit_order[2]]
    /\ event = <<commit_order[1]>>
    /\ chan = <<commit_order[2]>>

\* C29: a step of the worker leaves the set of cells as it is and, of every
\* cell, the expression, the dependencies and the dependents; the only record
\* it may change is that of the cell it recomputes.  A get changes no record.
C29_WorkerFrame ==
    [][/\ workerVars' # workerVars =>
            /\ DOMAIN cells' = DOMAIN cells
            /\ \A c \in DOMAIN cells :
                  /\ cells'[c].expression = cells[c].expression
                  /\ cells'[c].dependencies = cells[c].dependencies
                  /\ cells'[c].dependents = cells[c].dependents
                  /\ cells'[c] # cells[c] => wpc = "commit" /\ c = Head(update_order)
       /\ \A s \in Sessions : pc[s] = "idle" /\ pc'[s] = "reply" => cells' = cells]_vars

\* the worker has written a cell that has dependents of its own (its stamp
\* is newer than every set of the cell), and a get has been answered
C29_Witness ==
    /\ \E c \in DOMAIN cells :
          cells[c].last_update_time > newest[c].time /\ cells[c].dependents # {}
    /\ \E s \in Sessions : asked[s] # <<>>

\* the program at rest: every handler waits for a command, the channel is
\* empty, the worker waits in recv, the mutex is free
AtRest == Quiescent /\ lock = Free

\* C30: after finitely many sets the program comes to rest and stays at
\* rest: the mutex is only ever held by a session inside its own commit,
\* which needs nothing else to finish; the worker never sends an event; and
\* under fair scheduling every run ends with every set returned, the channel
\* empty, the worker waiting in recv and the mutex free.
C30_Quiescence ==
    /\ [](\A s \in Sessions : lock = s => pc[s] = "insert")
    /\ [][workerVars' # workerVars => chan' = chan \/ chan' = Tail(chan)]_vars
    /\ <>[]AtRest

\* at rest after two sessions have set cells and the worker has recomputed one
C30_Witness ==
    /\ AtRest
    /\ Len(commit_order) >= 2
    /\ \E s \in Sessions : \E o \in Sessions \ {s} : \E c, d \in DOMAIN cells :
          last_setter[c] = s /\ last_setter[d] = o
    /\ \E c \in DOMAIN cells : cells[c].last_update_time > newest[c].time

====
